---- MODULE Spec2Model ----
(***************************************************************************)
(* Visit counter of kjw-writings (server/index.js).  One process holds the *)
(* in-process stats object and the seenVisitorIds set; when DATABASE_URL   *)
(* is set it also talks to a PostgreSQL store holding visit_stats and      *)
(* visitors.  Handlers are JavaScript callbacks: each runs to its next     *)
(* await without interruption, so a handler is one action per segment      *)
(* between awaits, and the store executes each statement atomically.       *)
(***************************************************************************)
EXTENDS Integers, FiniteSets, Sequences, TLC

\* ---- bounds ----
MaxReqs == 3      \* requests that arrive in one behaviour
MaxUUID == 2      \* identifiers crypto.randomUUID() can hand out
MaxForged == 1    \* cookie values a client can present that the process never issued
MaxCorsReqs == 2  \* requests that arrive in one behaviour of the cross-origin deployment

Reqs == 1..MaxReqs
CorsReqs == 1..MaxCorsReqs
UUIDs == 1..MaxUUID
Forged == {0 - k : k \in 1..MaxForged}

\* req.cookies.vid when the request carries no vid cookie (falsy in JavaScript)
NoCookie == 0

VARIABLES
  allowedOrigin,   \* process.env.ALLOWED_ORIGIN as its comma-separated pieces
  pool,            \* TRUE iff DATABASE_URL is set (durable backend)
  stats,           \* the in-process stats object
  seenVisitorIds,  \* the in-process Set of visitor ids
  tables,          \* names of the tables that exist in the store
  visit_stats,     \* rows of table visit_stats
  visitors,        \* ids (primary keys) of table visitors
  initPc,          \* position of ensureTables()
  uuidCount,       \* number of identifiers randomUUID() has returned
  req              \* per request: position, locals, store answer, response

vars == <<allowedOrigin, pool, stats, seenVisitorIds, tables, visit_stats, visitors, initPc, uuidCount, req>>

\* ---- JavaScript / node-postgres values ----
\* A JavaScript number.
JsNumber(n) == [t |-> "number", v |-> n]

\* node-postgres hands a bigint (int8) column to JavaScript as a string.
PgInt8(n) == [t |-> "string", v |-> n]

\* Number(x): numeric value of a number or of a decimal string.
Number(x) == x.v

\* x === y: same type and same value, no coercion.
StrictEquals(x, y) == x.t = y.t /\ x.v = y.v

\* ---- the store's tables ----
StatsRowInit == [id |-> 1, total_visits |-> 0, unique_visitors |-> 0]

\* INSERT INTO visit_stats VALUES (1,0,0) ON CONFLICT (id) DO NOTHING
InsertStatsRow(tbl) ==
  IF \E row \in tbl : row.id = 1 THEN tbl ELSE tbl \cup {StatsRowInit}

\* INSERT INTO visitors (id) VALUES ($1) ON CONFLICT DO NOTHING RETURNING 1
InsRows(vis, vid) == IF vid \in vis THEN 0 ELSE 1

InsVisitorsReplace(vis, vid) == {vid}

InsVisitors(vis, vid) == vis \cup {vid}

\* SET total_visits = total_visits + 1, unique_visitors = unique_visitors + (SELECT COUNT(*) FROM ins)
UpdRowSwapped(row, insCount) ==
  [row EXCEPT !.total_visits = row.total_visits + insCount,
              !.unique_visitors = row.unique_visitors + 1]

UpdRowAssign(row, insCount) ==
  [row EXCEPT !.total_visits = row.total_visits + 1,
              !.unique_visitors = insCount]

UpdRow(row, insCount) ==
  [row EXCEPT !.total_visits = row.total_visits + 1,
              !.unique_visitors = row.unique_visitors + insCount]

\* UPDATE visit_stats ... WHERE id = 1
UpdTable(tbl, insCount) ==
  {IF row.id = 1 THEN UpdRow(row, insCount) ELSE row : row \in tbl}

\* ... RETURNING total_visits, unique_visitors; SELECT ..., (SELECT COUNT(*) FROM ins) AS new_visitor FROM upd
\* The rows are listed in a fixed order; the table holds at most the row with id 1.
RECURSIVE SetToSeq(_)
SetToSeq(S) ==
  IF S = {} THEN << >>
  ELSE LET x == CHOOSE y \in S : TRUE IN <<x>> \o SetToSeq(S \ {x})

VisitRows(tbl, insCount) ==
  SetToSeq({[total_visits |-> PgInt8(UpdRow(row, insCount).total_visits),
             unique_visitors |-> PgInt8(UpdRow(row, insCount).unique_visitors),
             new_visitor |-> PgInt8(insCount)] : row \in {x \in tbl : x.id = 1}})

\* SELECT total_visits, unique_visitors FROM visit_stats WHERE id = 1
StatsRows(tbl) ==
  SetToSeq({[total_visits |-> PgInt8(row.total_visits),
             unique_visitors |-> PgInt8(row.unique_visitors)] : row \in {x \in tbl : x.id = 1}})

\* ---- CORS middleware ----
\* A string is the sequence of its tokens; " " is a whitespace token.
\* req.headers.origin when the request has no Origin header (falsy in JavaScript)
NoOrigin == << >>

\* the response headers the middleware can set; "" and << >> stand for not set
NoHeaders ==
  [allowOrigin |-> NoOrigin, allowCredentials |-> "", vary |-> "",
   allowMethods |-> "", allowHeaders |-> ""]

\* value.trim()
RECURSIVE TrimLeft(_)
TrimLeft(str) ==
  IF str # << >> /\ Head(str) = " " THEN TrimLeft(Tail(str)) ELSE str

RECURSIVE TrimRight(_)
TrimRight(str) ==
  IF str # << >> /\ str[Len(str)] = " " THEN TrimRight(SubSeq(str, 1, Len(str) - 1)) ELSE str

Trim(str) == TrimRight(TrimLeft(str))

\* Boolean(value) of a string
Truthy(str) == str # << >>

\* allowedOrigin ? allowedOrigin.split(',').map((value) => value.trim()).filter(Boolean) : []
AllowedOrigins(env) ==
  SelectSeq([i \in 1..Len(env) |-> Trim(env[i])], Truthy)

\* allowedOrigins.includes(origin)
Includes(list, x) == \E i \in 1..Len(list) : list[i] = x

\* the headers set before the request is answered or handed to next()
CorsHeadersReflectAny(origin, method, env) ==
  [allowOrigin |-> origin,
   allowCredentials |-> IF Truthy(origin) THEN "true" ELSE "",
   vary |-> IF Truthy(origin) THEN "Origin" ELSE "",
   allowMethods |-> IF method = "OPTIONS" THEN "GET,POST,OPTIONS" ELSE "",
   allowHeaders |-> IF method = "OPTIONS" THEN "Content-Type" ELSE ""]

CorsHeaders(origin, method, env) ==
  LET allowed == Truthy(origin) /\ Includes(AllowedOrigins(env), origin)
  IN [allowOrigin |-> IF allowed THEN origin ELSE NoOrigin,
      allowCredentials |-> IF allowed THEN "true" ELSE "",
      vary |-> IF allowed THEN "Origin" ELSE "",
      allowMethods |-> IF method = "OPTIONS" THEN "GET,POST,OPTIONS" ELSE "",
      allowHeaders |-> IF method = "OPTIONS" THEN "Content-Type" ELSE ""]

\* the Origin headers clients send: none, two sites, one of them never allow-listed
Origins == {NoOrigin, <<"https://a">>, <<"https://c">>}

\* the values of ALLOWED_ORIGIN: unset, one site, a padded list with an empty piece
EnvChoices ==
  {<< >>,
   <<<<"https://a">>>>,
   << <<" ", "https://a", " ">>, << >>, <<"https://b">> >>}

\* ---- requests ----
NoResult == [err |-> FALSE, rows |-> << >>]
NoResp == [status |-> 0]
NoEffect == [known |-> FALSE, created |-> FALSE, dTotal |-> 0, dUnique |-> 0, total |-> 0, unique |-> 0]

IdleReq == [pc |-> "idle", method |-> "NONE", origin |-> NoOrigin, headers |-> NoHeaders,
            cookie |-> NoCookie, visitorId |-> NoCookie,
            isNew |-> FALSE, result |-> NoResult, resp |-> NoResp, effect |-> NoEffect]

\* requests are numbered in order of arrival
Arriving(r) == req[r].pc = "idle" /\ \A q \in Reqs : q < r => req[q].pc # "idle"

\* vid cookies a response has set so far
IssuedCookies == {req[r].resp.cookie : r \in {q \in Reqs : req[q].resp.status = 200 /\ req[q].method = "POST"}}

\* what a client can send as vid: nothing, a cookie it was given, or a value the process never issued
CookieChoices == {NoCookie} \cup IssuedCookies \cup Forged

\* the counters the ledger holds: the stats object, or the visit_stats row
\* (0 when there is no row, as /api/stats reads it)
TotalOf(st, tbl) ==
  IF pool THEN (IF tbl = {} THEN 0 ELSE (CHOOSE row \in tbl : row.id = 1).total_visits)
  ELSE st.totalVisits

UniqueOf(st, tbl) ==
  IF pool THEN (IF tbl = {} THEN 0 ELSE (CHOOSE row \in tbl : row.id = 1).unique_visitors)
  ELSE st.uniqueVisitors

LedgerTotal == TotalOf(stats, visit_stats)

LedgerUnique == UniqueOf(stats, visit_stats)

\* the visitor ids the ledger has recorded
LedgerIds == IF pool THEN visitors ELSE seenVisitorIds

Init ==
  /\ allowedOrigin = << >>
  /\ pool \in BOOLEAN
  /\ stats = [totalVisits |-> 0, uniqueVisitors |-> 0]
  /\ seenVisitorIds = {}
  /\ tables = {}
  /\ visit_stats = {}
  /\ visitors = {}
  /\ initPc = IF pool THEN "create_visit_stats" ELSE "done"
  /\ uuidCount = 0
  /\ req = [r \in Reqs |-> IdleReq]

\* ---- ensureTables (runs once at startup, not awaited by app.listen) ----
\* CREATE TABLE IF NOT EXISTS visit_stats
CreateVisitStats ==
  /\ pool /\ initPc = "create_visit_stats"
  /\ tables' = tables \cup {"visit_stats"}
  /\ initPc' = "create_visitors"
  /\ UNCHANGED <<allowedOrigin, pool, stats, seenVisitorIds, visit_stats, visitors, uuidCount, req>>

\* CREATE TABLE IF NOT EXISTS visitors
CreateVisitors ==
  /\ pool /\ initPc = "create_visitors"
  /\ tables' = tables \cup {"visitors"}
  /\ initPc' = "insert_row"
  /\ UNCHANGED <<allowedOrigin, pool, stats, seenVisitorIds, visit_stats, visitors, uuidCount, req>>

\* INSERT INTO visit_stats ... ON CONFLICT (id) DO NOTHING
InsertRow ==
  /\ pool /\ initPc = "insert_row"
  /\ visit_stats' = InsertStatsRow(visit_stats)
  /\ initPc' = "done"
  /\ UNCHANGED <<allowedOrigin, pool, stats, seenVisitorIds, tables, visitors, uuidCount, req>>

\* one of the three queries rejects: the .catch logs and the process keeps running
EnsureTablesFail ==
  /\ pool /\ initPc \in {"create_visit_stats", "create_visitors", "insert_row"}
  /\ initPc' = "failed"
  /\ UNCHANGED <<allowedOrigin, pool, stats, seenVisitorIds, tables, visit_stats, visitors, uuidCount, req>>

\* ---- POST /api/visit ----
\* let visitorId = req.cookies.vid; if (!visitorId) visitorId = crypto.randomUUID()
ResolveVisitorIdAlwaysFresh(cookie, fresh) == fresh

ResolveVisitorId(cookie, fresh) == IF cookie = NoCookie THEN fresh ELSE cookie

\* isNew: no cookie, or a cookie seenVisitorIds does not hold
ResolveIsNew(cookie, seen) == IF cookie = NoCookie THEN TRUE ELSE cookie \notin seen

\* crypto.randomUUID(): an identifier never returned before
RandomUUID == uuidCount + 1

\* stats.totalVisits += 1; if (isNew) stats.uniqueVisitors += 1
RecordStats(st, isNew) ==
  [totalVisits |-> st.totalVisits + 1,
   uniqueVisitors |-> st.uniqueVisitors + (IF isNew THEN 1 ELSE 0)]

\* if (isNew) seenVisitorIds.add(visitorId)
RecordSeen(seen, vid, isNew) == IF isNew THEN seen \cup {vid} ELSE seen

\* isNew after the store answered
ResultIsNew(isNew, result) ==
  IF Len(result.rows) > 0
  THEN StrictEquals(result.rows[1].new_visitor, JsNumber(1))
  ELSE isNew

\* the stats object after the store answered (or threw)
ResultStatsZeroOnError(st, result) ==
  IF result.err THEN [totalVisits |-> 0, uniqueVisitors |-> 0]
  ELSE IF Len(result.rows) > 0
       THEN [totalVisits |-> Number(result.rows[1].total_visits),
             uniqueVisitors |-> Number(result.rows[1].unique_visitors)]
       ELSE st

ResultStats(st, result) ==
  IF result.err THEN st
  ELSE IF Len(result.rows) > 0
       THEN [totalVisits |-> Number(result.rows[1].total_visits),
             uniqueVisitors |-> Number(result.rows[1].unique_visitors)]
       ELSE st

\* res.cookie('vid', visitorId); res.json({ok: true, ...})
VisitOk(st, vid, isNew) ==
  [status |-> 200, cookie |-> vid,
   body |-> [ok |-> TRUE, totalVisits |-> st.totalVisits,
             uniqueVisitors |-> st.uniqueVisitors, newVisitor |-> isNew]]

\* res.status(500).json({ok: false, error})
Error500(code) ==
  [status |-> 500, cookie |-> NoCookie, body |-> [ok |-> FALSE, error |-> code]]

\* res.json({totalVisits, uniqueVisitors})
StatsOkWithCookie(st) ==
  [status |-> 200, cookie |-> RandomUUID,
   body |-> [totalVisits |-> st.totalVisits, uniqueVisitors |-> st.uniqueVisitors]]

StatsOk(st) ==
  [status |-> 200, cookie |-> NoCookie,
   body |-> [totalVisits |-> st.totalVisits, uniqueVisitors |-> st.uniqueVisitors]]

\* what the request's ledger operation did to the ledger: whether the id was
\* recorded before, whether the operation created the visitor record, by how
\* much it raised the counters and what it left in them
Effect(known, created, st, tbl) ==
  [known |-> known, created |-> created,
   dTotal |-> TotalOf(st, tbl) - LedgerTotal,
   dUnique |-> UniqueOf(st, tbl) - LedgerUnique,
   total |-> TotalOf(st, tbl), unique |-> UniqueOf(st, tbl)]

\* ephemeral backend: the handler has no await and runs to its response
VisitEphemeral(r, cookie, origin) ==
  /\ ~pool /\ Arriving(r)
  /\ cookie = NoCookie => uuidCount < MaxUUID
  /\ LET visitorId == ResolveVisitorId(cookie, RandomUUID)
         isNew == ResolveIsNew(cookie, seenVisitorIds)
     IN /\ stats' = RecordStats(stats, isNew)
        /\ seenVisitorIds' = RecordSeen(seenVisitorIds, visitorId, isNew)
        /\ uuidCount' = IF cookie = NoCookie THEN uuidCount + 1 ELSE uuidCount
        /\ UNCHANGED <<allowedOrigin, pool, tables, visit_stats, visitors, initPc>>
        /\ req' = [req EXCEPT ![r] =
                     [pc |-> "done", method |-> "POST", origin |-> origin,
                      headers |-> CorsHeaders(origin, "POST", allowedOrigin), cookie |-> cookie,
                      visitorId |-> visitorId, isNew |-> isNew, result |-> NoResult,
                      resp |-> VisitOk(stats', visitorId, isNew),
                      effect |-> Effect(visitorId \in seenVisitorIds, isNew, stats', visit_stats)]]

\* durable backend: the handler resolves the id, sends the statement and awaits
VisitSend(r, cookie, origin) ==
  /\ pool /\ Arriving(r)
  /\ cookie = NoCookie => uuidCount < MaxUUID
  /\ uuidCount' = IF cookie = NoCookie THEN uuidCount + 1 ELSE uuidCount
  /\ req' = [req EXCEPT ![r] =
               [IdleReq EXCEPT !.pc = "awaiting", !.method = "POST", !.origin = origin,
                               !.headers = CorsHeaders(origin, "POST", allowedOrigin),
                               !.cookie = cookie,
                               !.visitorId = ResolveVisitorId(cookie, RandomUUID),
                               !.isNew = ResolveIsNew(cookie, seenVisitorIds)]]
  /\ UNCHANGED <<allowedOrigin, pool, stats, seenVisitorIds, tables, visit_stats, visitors, initPc>>

\* the store runs the WITH ins ... upd ... SELECT statement as one transaction;
\* it raises an error when a table it names does not exist
StoreExecVisit(r) ==
  /\ req[r].pc = "awaiting" /\ req[r].method = "POST"
  /\ IF {"visit_stats", "visitors"} \subseteq tables
     THEN LET vid == req[r].visitorId
              insCount == InsRows(visitors, vid)
          IN /\ visitors' = InsVisitors(visitors, vid)
             /\ visit_stats' = UpdTable(visit_stats, insCount)
             /\ req' = [req EXCEPT ![r].pc = "answered",
                                   ![r].result = [err |-> FALSE, rows |-> VisitRows(visit_stats, insCount)],
                                   ![r].effect = Effect(vid \in visitors, insCount = 1, stats, visit_stats')]
     ELSE /\ req' = [req EXCEPT ![r].pc = "answered", ![r].result = [err |-> TRUE, rows |-> << >>]]
          /\ UNCHANGED <<visitors, visit_stats>>
  /\ UNCHANGED <<allowedOrigin, pool, stats, seenVisitorIds, tables, initPc, uuidCount>>

\* the handler resumes after the await: try body or catch, then cookie and response
VisitResume(r) ==
  /\ req[r].pc = "answered" /\ req[r].method = "POST"
  /\ stats' = ResultStats(stats, req[r].result)
  /\ LET isNew == ResultIsNew(req[r].isNew, req[r].result)
     IN req' = [req EXCEPT ![r].pc = "done",
                           ![r].isNew = IF req[r].result.err THEN req[r].isNew ELSE isNew,
                           ![r].resp = IF req[r].result.err
                                       THEN Error500("stats_update_failed")
                                       ELSE VisitOk(stats', req[r].visitorId, isNew)]
  /\ UNCHANGED <<allowedOrigin, pool, seenVisitorIds, tables, visit_stats, visitors, initPc, uuidCount>>

\* ---- GET /api/stats ----
StatsEphemeral(r, origin) ==
  /\ ~pool /\ Arriving(r)
  /\ req' = [req EXCEPT ![r] = [IdleReq EXCEPT !.pc = "done", !.method = "GET", !.origin = origin,
                                               !.headers = CorsHeaders(origin, "GET", allowedOrigin),
                                               !.resp = StatsOk(stats)]]
  /\ UNCHANGED <<allowedOrigin, pool, stats, seenVisitorIds, tables, visit_stats, visitors, initPc, uuidCount>>

StatsSend(r, origin) ==
  /\ pool /\ Arriving(r)
  /\ req' = [req EXCEPT ![r] = [IdleReq EXCEPT !.pc = "awaiting", !.method = "GET", !.origin = origin,
                                               !.headers = CorsHeaders(origin, "GET", allowedOrigin)]]
  /\ UNCHANGED <<allowedOrigin, pool, stats, seenVisitorIds, tables, visit_stats, visitors, initPc, uuidCount>>

\* the store runs the SELECT; it raises an error when visit_stats does not exist
StoreExecStats(r) ==
  /\ req[r].pc = "awaiting" /\ req[r].method = "GET"
  /\ req' = [req EXCEPT ![r].pc = "answered",
                        ![r].result = IF "visit_stats" \in tables
                                      THEN [err |-> FALSE, rows |-> StatsRows(visit_stats)]
                                      ELSE [err |-> TRUE, rows |-> << >>]]
  /\ UNCHANGED <<allowedOrigin, pool, stats, seenVisitorIds, tables, visit_stats, visitors, initPc, uuidCount>>

\* const row = result.rows[0] || {total_visits: 0, unique_visitors: 0}
StatsRowOrOne(result) ==
  IF Len(result.rows) > 0 THEN result.rows[1]
  ELSE [total_visits |-> JsNumber(1), unique_visitors |-> JsNumber(0)]

StatsRowOrZero(result) ==
  IF Len(result.rows) > 0 THEN result.rows[1]
  ELSE [total_visits |-> JsNumber(0), unique_visitors |-> JsNumber(0)]

\* the stats object after the SELECT answered (or threw)
ReadStatsZeroOnError(st, result) ==
  IF result.err THEN [totalVisits |-> 0, uniqueVisitors |-> 0]
  ELSE [totalVisits |-> Number(StatsRowOrZero(result).total_visits),
        uniqueVisitors |-> Number(StatsRowOrZero(result).unique_visitors)]

ReadStats(st, result) ==
  IF result.err THEN st
  ELSE [totalVisits |-> Number(StatsRowOrZero(result).total_visits),
        uniqueVisitors |-> Number(StatsRowOrZero(result).unique_visitors)]

StatsResume(r) ==
  /\ req[r].pc = "answered" /\ req[r].method = "GET"
  /\ stats' = ReadStats(stats, req[r].result)
  /\ req' = [req EXCEPT ![r].pc = "done",
                        ![r].resp = IF req[r].result.err
                                    THEN Error500("stats_read_failed")
                                    ELSE StatsOk(stats')]
  /\ UNCHANGED <<allowedOrigin, pool, seenVisitorIds, tables, visit_stats, visitors, initPc, uuidCount>>

\* ---- OPTIONS * ----
\* the middleware answers a preflight itself: res.sendStatus(204), next() is not called
Options(r, origin) ==
  /\ Arriving(r)
  /\ req' = [req EXCEPT ![r] = [IdleReq EXCEPT !.pc = "done", !.method = "OPTIONS", !.origin = origin,
                                               !.headers = CorsHeaders(origin, "OPTIONS", allowedOrigin),
                                               !.resp = [status |-> 204, cookie |-> NoCookie]]]
  /\ UNCHANGED <<allowedOrigin, pool, stats, seenVisitorIds, tables, visit_stats, visitors, initPc, uuidCount>>

\* ---- the store as seen through pool.query ----
\* the store is unreachable or the statement fails: the promise rejects, nothing is written
StoreFail(r) ==
  /\ req[r].pc = "awaiting"
  /\ req' = [req EXCEPT ![r].pc = "answered", ![r].result = [err |-> TRUE, rows |-> << >>]]
  /\ UNCHANGED <<allowedOrigin, pool, stats, seenVisitorIds, tables, visit_stats, visitors, initPc, uuidCount>>

\* the store never answers: the Pool is built with no connectionTimeoutMillis,
\* query_timeout or statement_timeout, so the promise stays pending
StoreNeverAnswers(r) ==
  /\ req[r].pc = "awaiting"
  /\ req' = [req EXCEPT ![r].pc = "hung"]
  /\ UNCHANGED <<allowedOrigin, pool, stats, seenVisitorIds, tables, visit_stats, visitors, initPc, uuidCount>>

Next ==
  \/ CreateVisitStats
  \/ CreateVisitors
  \/ InsertRow
  \/ EnsureTablesFail
  \/ \E r \in Reqs, cookie \in CookieChoices : VisitEphemeral(r, cookie, NoOrigin)
  \/ \E r \in Reqs, cookie \in CookieChoices : VisitSend(r, cookie, NoOrigin)
  \/ \E r \in Reqs : StoreExecVisit(r)
  \/ \E r \in Reqs : VisitResume(r)
  \/ \E r \in Reqs : StatsEphemeral(r, NoOrigin)
  \/ \E r \in Reqs : StatsSend(r, NoOrigin)
  \/ \E r \in Reqs : StoreExecStats(r)
  \/ \E r \in Reqs : StatsResume(r)
  \/ \E r \in Reqs : StoreFail(r)
  \/ \E r \in Reqs : StoreNeverAnswers(r)

Spec == Init /\ [][Next]_vars

\* ---- cross-origin deployment: ALLOWED_ORIGIN set, requests carry Origin ----
CorsInit ==
  /\ allowedOrigin \in EnvChoices
  /\ pool \in BOOLEAN
  /\ stats = [totalVisits |-> 0, uniqueVisitors |-> 0]
  /\ seenVisitorIds = {}
  /\ tables = {}
  /\ visit_stats = {}
  /\ visitors = {}
  /\ initPc = IF pool THEN "create_visit_stats" ELSE "done"
  /\ uuidCount = 0
  /\ req = [r \in Reqs |-> IdleReq]

CorsNext ==
  \/ CreateVisitStats
  \/ CreateVisitors
  \/ InsertRow
  \/ EnsureTablesFail
  \/ \E r \in CorsReqs, origin \in Origins : Options(r, origin)
  \/ \E r \in CorsReqs, cookie \in CookieChoices, origin \in Origins : VisitEphemeral(r, cookie, origin)
  \/ \E r \in CorsReqs, cookie \in CookieChoices, origin \in Origins : VisitSend(r, cookie, origin)
  \/ \E r \in CorsReqs : StoreExecVisit(r)
  \/ \E r \in CorsReqs : VisitResume(r)
  \/ \E r \in CorsReqs, origin \in Origins : StatsEphemeral(r, origin)
  \/ \E r \in CorsReqs, origin \in Origins : StatsSend(r, origin)
  \/ \E r \in CorsReqs : StoreExecStats(r)
  \/ \E r \in CorsReqs : StatsResume(r)
  \/ \E r \in CorsReqs : StoreFail(r)
  \/ \E r \in CorsReqs : StoreNeverAnswers(r)

CorsSpec == CorsInit /\ [][CorsNext]_vars

TypeOK ==
  /\ pool \in BOOLEAN
  /\ stats.totalVisits \in Nat /\ stats.uniqueVisitors \in Nat
  /\ seenVisitorIds \subseteq (UUIDs \cup Forged)
  /\ visitors \subseteq (UUIDs \cup Forged)
  /\ Cardinality(visit_stats) <= 1

\* the promise of every query the store answers settles, and a settled promise
\* resumes its handler; nothing obliges the store to answer
FairSpec ==
  /\ Spec
  /\ \A r \in Reqs : WF_vars(StoreExecVisit(r)) /\ WF_vars(StoreExecStats(r))
  /\ \A r \in Reqs : WF_vars(VisitResume(r)) /\ WF_vars(StatsResume(r))
  /\ WF_vars(CreateVisitStats) /\ WF_vars(CreateVisitors) /\ WF_vars(InsertRow)

\* ---- properties ----
\* POST /api/visit requests answered with ok: true
OkPosts == {r \in Reqs : req[r].method = "POST" /\ req[r].resp.status = 200}

\* POST /api/visit requests answered with HTTP 500
FailedPosts == {r \in Reqs : req[r].method = "POST" /\ req[r].resp.status = 500}

\* GET /api/stats requests answered with HTTP 500
FailedGets == {r \in Reqs : req[r].method = "GET" /\ req[r].resp.status = 500}

\* no request is between its arrival and its response
Quiescent == \A r \in Reqs : req[r].pc \in {"idle", "done"}

\* C1: once every request has been answered, totalVisits is the number N of
\* successful POST /api/visit requests and uniqueVisitors the number K of
\* distinct visitor ids they carried, in both backends and for every interleaving.
C1_RaceSafety ==
  Quiescent =>
    /\ LedgerTotal = Cardinality(OkPosts)
    /\ LedgerUnique = Cardinality({req[r].visitorId : r \in OkPosts})

\* C2: uniqueVisitors <= totalVisits in the ledger's stored counters and in
\* every response that carries the two values.
C2_UniqueLeTotal ==
  /\ LedgerUnique <= LedgerTotal
  /\ \A r \in Reqs : req[r].resp.status = 200 =>
       req[r].resp.body.uniqueVisitors <= req[r].resp.body.totalVisits

C2_Witness ==
  /\ LedgerTotal = 2 /\ LedgerUnique = 1
  /\ \E r \in OkPosts : req[r].resp.body.totalVisits = 2 /\ req[r].resp.body.uniqueVisitors = 1
  /\ \E r \in Reqs : req[r].resp.status = 500

\* C3: a POST /api/visit answered ok: true raised totalVisits by exactly 1, and
\* uniqueVisitors by 1 if its id was not recorded before and by 0 otherwise.
C3_OkVisitCounts ==
  \A r \in OkPosts :
    /\ req[r].effect.dTotal = 1
    /\ req[r].effect.dUnique = IF req[r].effect.known THEN 0 ELSE 1

\* C4: newVisitor of an ok: true response is true iff the request created the
\* visitor record: a first visit without cookie answers newVisitor: true and a
\* second one reusing the issued cookie answers newVisitor: false (the counter
\* values of the two scenarios are those of C3).
C4_NewVisitorFlag ==
  /\ \A r \in OkPosts : req[r].resp.body.newVisitor = ~req[r].effect.known
  /\ (1 \in OkPosts /\ req[1].cookie = NoCookie /\ req[2].pc = "idle") =>
       req[1].resp.body.newVisitor
  /\ (/\ {1, 2} \subseteq OkPosts /\ req[1].cookie = NoCookie
      /\ req[2].cookie = req[1].resp.cookie /\ req[3].pc = "idle") =>
       ~req[2].resp.body.newVisitor

\* C5: when the store query of POST /api/visit fails, the response is HTTP 500
\* stats_update_failed, and no step of that request (sending the query,
\* handling the rejection) changes stats or seenVisitorIds.
C5_VisitFailureNoPartialUpdate ==
  [][\A r \in Reqs :
       /\ (pool /\ req[r].pc = "idle" /\ req'[r].method = "POST") =>
            (stats' = stats /\ seenVisitorIds' = seenVisitorIds)
       /\ (req[r].method = "POST" /\ req[r].pc = "answered" /\ req[r].result.err /\ req'[r].pc = "done") =>
            /\ req'[r].resp = [status |-> 500, cookie |-> NoCookie,
                               body |-> [ok |-> FALSE, error |-> "stats_update_failed"]]
            /\ stats' = stats
            /\ seenVisitorIds' = seenVisitorIds]_vars

C5_Witness ==
  \E r \in FailedPosts : req[r].pc = "done" /\ stats.totalVisits = 2 /\ stats.uniqueVisitors = 1

\* C6: when the store query of GET /api/stats fails, the response is HTTP 500
\* stats_read_failed and neither the store's tables nor stats are written.
C6_StatsFailureNoWrite ==
  [][\A r \in Reqs :
       /\ (pool /\ req[r].pc = "idle" /\ req'[r].method = "GET") =>
            (stats' = stats /\ visit_stats' = visit_stats /\ visitors' = visitors)
       /\ (req[r].method = "GET" /\ req[r].pc = "answered" /\ req[r].result.err /\ req'[r].pc = "done") =>
            /\ req'[r].resp = [status |-> 500, cookie |-> NoCookie,
                               body |-> [ok |-> FALSE, error |-> "stats_read_failed"]]
            /\ stats' = stats
            /\ visit_stats' = visit_stats
            /\ visitors' = visitors]_vars

C6_Witness ==
  \E r \in FailedGets : req[r].pc = "done" /\ stats.totalVisits = 2 /\ LedgerTotal = 2

\* C7: the ledger's totalVisits and uniqueVisitors never decrease in a step.
C7_Monotone ==
  [][/\ TotalOf(stats', visit_stats') >= LedgerTotal
     /\ UniqueOf(stats', visit_stats') >= LedgerUnique]_vars

C7_Witness == LedgerTotal = 3 /\ LedgerUnique = 2

\* C8: every request that arrived is eventually answered.
C8_EveryRequestAnswered ==
  \A r \in Reqs : (req[r].pc # "idle") ~> (req[r].pc = "done")

\* C9: an ok: true POST /api/visit with a vid cookie uses that value as the
\* visitor id; one without gets an id no earlier request had; in both cases the
\* id is recorded in the ledger and returned in the vid cookie.
C9_StableIdentity ==
  \A r \in OkPosts :
    /\ req[r].cookie # NoCookie => req[r].visitorId = req[r].cookie
    /\ req[r].cookie = NoCookie =>
         /\ req[r].visitorId # NoCookie
         /\ \A q \in Reqs : q < r => req[q].visitorId # req[r].visitorId
    /\ req[r].visitorId \in LedgerIds
    /\ req[r].resp.cookie = req[r].visitorId

C9_Witness ==
  \E r, q \in OkPosts :
    /\ req[r].cookie = NoCookie
    /\ req[q].cookie = req[r].resp.cookie
    /\ \E p \in OkPosts : req[p].cookie \in Forged

\* C10: two ok: true POST /api/visit requests with the same visitor id raise
\* totalVisits by 2 in total and uniqueVisitors by at most 1 in total.
C10_Idempotence ==
  \A r, q \in OkPosts :
    (r # q /\ req[r].visitorId = req[q].visitorId) =>
      /\ req[r].effect.dTotal + req[q].effect.dTotal = 2
      /\ req[r].effect.dUnique + req[q].effect.dUnique <= 1

\* POST /api/visit requests whose ledger operation has run
Recorded ==
  {r \in Reqs : /\ req[r].method = "POST"
                /\ req[r].pc \in {"answered", "done"}
                /\ ~req[r].result.err}

\* C11: the set of visitor ids the ledger knows only grows, and no two ledger
\* operations create a record for the same id.
C11_VisitorsOnlyGrow ==
  [][/\ LedgerIds \subseteq LedgerIds'
     /\ \A r, q \in Recorded' :
          (r # q /\ req'[r].effect.created /\ req'[q].effect.created) =>
            req'[r].visitorId # req'[q].visitorId]_vars

C11_Witness ==
  /\ Cardinality(LedgerIds) = 2
  /\ \E r, q \in Recorded :
       /\ r # q /\ req[r].visitorId = req[q].visitorId
       /\ req[r].effect.created /\ ~req[q].effect.created

\* C12: a request that is being handled while ensureTables is still running or
\* after it failed is eventually answered (with a success or with HTTP 500).
C12_InitFailureNotFatal ==
  \A r \in Reqs :
    (req[r].pc # "idle" /\ initPc # "done") ~> (req[r].pc = "done")

\* GET /api/stats requests answered with the two counters
OkGets == {r \in Reqs : req[r].method = "GET" /\ req[r].resp.status = 200}

\* C13: as long as no visit has been recorded, every GET /api/stats that is
\* answered with counters carries totalVisits = 0 and uniqueVisitors = 0.
C13_StatsZeroBeforeVisits ==
  Recorded = {} =>
    \A r \in OkGets : req[r].resp.body = [totalVisits |-> 0, uniqueVisitors |-> 0]

C13_Witness ==
  /\ Recorded = {}
  /\ pool /\ visit_stats = {}
  /\ OkGets # {}
  /\ \E r \in Reqs : req[r].method = "POST" /\ req[r].pc = "done"

\* C14: in the durable backend every ok: true POST /api/visit response carries
\* the counters its own update left in the store, so the totalVisits values of
\* the successful responses are pairwise distinct.
C14_ResponseCarriesOwnUpdate ==
  pool =>
    /\ \A r \in OkPosts :
         /\ req[r].resp.body.totalVisits = req[r].effect.total
         /\ req[r].resp.body.uniqueVisitors = req[r].effect.unique
    /\ \A r, q \in OkPosts :
         r # q => req[r].resp.body.totalVisits # req[q].resp.body.totalVisits

\* C15: the number of visitor records the ledger holds equals uniqueVisitors
\* (|seenVisitorIds| = stats.uniqueVisitors, rows of visitors =
\* visit_stats.unique_visitors), also before the visit_stats row is inserted.
C15_RecordsEqualUnique == Cardinality(LedgerIds) = LedgerUnique

\* C16: no step of a GET /api/stats request (sending the query, the store
\* answering or failing, the handler answering) changes the ledger's counters
\* or its set of visitor ids, and its response sets no vid cookie.
C16_StatsReadOnly ==
  [][\A r \in Reqs :
       (req'[r] # req[r] /\ req'[r].method = "GET") =>
         /\ TotalOf(stats', visit_stats') = LedgerTotal
         /\ UniqueOf(stats', visit_stats') = LedgerUnique
         /\ LedgerIds' = LedgerIds
         /\ req'[r].pc = "done" => req'[r].resp.cookie = NoCookie]_vars

C16_Witness ==
  /\ LedgerTotal >= 1 /\ LedgerIds # {}
  /\ OkGets # {}
  /\ FailedGets # {}

\* C17: in the durable backend the in-process cached totals never decrease in
\* a step, whatever the order in which the store's answers resume the handlers.
C17_CacheMonotone ==
  [][pool =>
       /\ stats'.totalVisits >= stats.totalVisits
       /\ stats'.uniqueVisitors >= stats.uniqueVisitors]_vars

\* the request's Origin is one of the allow-listed origins
OriginAllowed(r) ==
  /\ req[r].origin # NoOrigin
  /\ \E i \in 1..Len(allowedOrigin) : Trim(allowedOrigin[i]) = req[r].origin

\* C18: an OPTIONS request whose Origin is allow-listed is answered 204 with
\* Access-Control-Allow-Methods: GET,POST,OPTIONS and
\* Access-Control-Allow-Headers: Content-Type; an OPTIONS request never runs a
\* ledger operation and leaves the ledger unchanged; and
\* Access-Control-Allow-Origin / -Credentials are set only for a request whose
\* Origin is allow-listed.
C18_Cors ==
  [][\A r \in Reqs :
       /\ (req'[r].method = "OPTIONS" /\ req'[r].pc = "done" /\ OriginAllowed(r)') =>
            /\ req'[r].resp.status = 204
            /\ req'[r].headers.allowMethods = "GET,POST,OPTIONS"
            /\ req'[r].headers.allowHeaders = "Content-Type"
       /\ (req'[r] # req[r] /\ req'[r].method = "OPTIONS") =>
            /\ stats' = stats
            /\ seenVisitorIds' = seenVisitorIds
            /\ visit_stats' = visit_stats
            /\ visitors' = visitors
            /\ req'[r].result = NoResult
            /\ req'[r].effect = NoEffect
       /\ (req'[r].headers.allowOrigin # NoOrigin \/ req'[r].headers.allowCredentials # "") =>
            OriginAllowed(r)']_vars

C18_Witness ==
  /\ Len(allowedOrigin) = 3
  /\ LedgerIds # {}
  /\ \E r, q \in Reqs :
       /\ req[r].method = "OPTIONS" /\ req[r].pc = "done"
       /\ req[r].origin = <<"https://a">>
       /\ req[r].headers.allowOrigin = <<"https://a">>
       /\ req[r].headers.allowCredentials = "true"
       /\ req[q].method = "POST" /\ req[q].pc = "done"
       /\ req[q].origin = <<"https://c">>
       /\ req[q].headers.allowOrigin = NoOrigin

====
